---- MODULE Spec2Model ----
(***************************************************************************)
(* Model of scan.go (atlantis0/apk-file-malice): the scan pipeline run by  *)
(* the CLI action (main, app.Action) and by the HTTP handler (webAvScan),  *)
(* the two magic-detection calls (GetFileMimeType, GetFileDescription)     *)
(* with their background goroutine, one-slot channel and select, and the   *)
(* process-wide FileInfo holder fi.                                        *)
(*                                                                         *)
(* One process is either the CLI (one scan, scan 1) or the web service     *)
(* (NumReq requests, each served by its own handler goroutine).            *)
(***************************************************************************)
EXTENDS Naturals, Sequences, FiniteSets, TLC

\* Number of HTTP requests the web service is given (each one handler goroutine).
NumReq == 2

\* Number of adverse events the environment produces while the web service
\* runs: a detector error, a failed Open, a failed tool, an output a parser
\* cannot index, a failed upload or response write, a deadline that passes.
\* The CLI process, which runs one scan, is given any number of them.
MaxFaults == 2

Scans == 1..NumReq

\* ------------------------------------------------------------------------
\* Values

\* Zero value of a string field of fi (never written).
Unset == [scan |-> 0, kind |-> "none", attempt |-> 0, ok |-> FALSE]

\* What magicmime.TypeByFile returned in attempt a of the kind-k call of scan s:
\* ok = TRUE is a detected value, ok = FALSE is err.Error() of a detector failure.
Detected(s, k, a, ok) == [scan |-> s, kind |-> k, attempt |-> a, ok |-> ok]

\* Zero value of FileMagic.
NoMagic == [mime |-> Unset, description |-> Unset]

\* Error classes: nil, a tool / detector failure, the scope's cancellation.
Errors == {"nil", "fail", "cancel"}

\* ------------------------------------------------------------------------
\* Text. A string is a sequence of symbols: the separator characters are
\* symbols of their own, and a word (a run of letters and digits) or a fixed
\* phrase is one symbol. No word below is the concatenation of other words.

NL == "\n"

Spaces == {" ", "\t", NL}

\* err.Error()
ErrText(e) ==
    IF e = "cancel" THEN <<"context deadline exceeded">> ELSE <<"exit status 1">>

\* The position of the n-th sep of str; 0 for n = 0, Len(str) + 1 when str has
\* fewer than n of them.
SepAt(str, sep, n) ==
    IF n = 0 THEN 0
    ELSE IF \E p \in 1..Len(str) :
              /\ str[p] = sep
              /\ Cardinality({q \in 1..p : str[q] = sep}) = n
         THEN CHOOSE p \in 1..Len(str) :
                  /\ str[p] = sep
                  /\ Cardinality({q \in 1..p : str[q] = sep}) = n
         ELSE Len(str) + 1

\* strings.Split(str, sep) for a one-character sep: every sep separates, so
\* a str with n of them gives n + 1 pieces.
Split(str, sep) ==
    [k \in 1..(Cardinality({q \in 1..Len(str) : str[q] = sep}) + 1) |->
        SubSeq(str, SepAt(str, sep, k - 1) + 1, SepAt(str, sep, k) - 1)]

RECURSIVE TrimLeft(_)
TrimLeft(str) ==
    IF str # <<>> /\ Head(str) \in Spaces THEN TrimLeft(Tail(str)) ELSE str

RECURSIVE TrimRight(_)
TrimRight(str) ==
    IF str # <<>> /\ str[Len(str)] \in Spaces
    THEN TrimRight(SubSeq(str, 1, Len(str) - 1))
    ELSE str

\* strings.TrimSpace
TrimSpace(str) == TrimRight(TrimLeft(str))

\* strings.Contains(str, sub)
Contains(str, sub) ==
    \E i \in 0..(Len(str) - Len(sub)) : SubSeq(str, i + 1, i + Len(sub)) = sub

\* utils.SliceContainsString(a, list): some element contains a.
SliceContainsString(a, list) ==
    \E i \in 1..Len(list) : Contains(list[i], a)

\* utils.StringInSlice(a, list): some element equals a.
StringInSlice(a, list) ==
    \E i \in 1..Len(list) : list[i] = a

\* ------------------------------------------------------------------------
\* Output parsers

RECURSIVE Words(_)
\* The chunks camelingRegex ([0-9A-Za-z]+) finds: the words, in order.
Words(str) ==
    IF str = <<>> THEN <<>>
    ELSE IF Head(str) \in Spaces \cup {":", ",", "/"}
         THEN Words(Tail(str))
         ELSE <<Head(str)>> \o Words(Tail(str))

\* bytes.Title of one word: its first letter in upper case.
Title(w) ==
    CASE w = "size" -> "Size"
      [] w = "name" -> "Name"
      [] OTHER -> w

\* utils.CamelCase: every chunk but the first is title-cased, then all joined.
CamelCase(str) ==
    LET ws == Words(str)
    IN  [i \in 1..Len(ws) |-> IF i > 1 THEN Title(ws[i]) ELSE ws[i]]

\* datas[k] = v
MapPut(m, k, v) == [x \in (DOMAIN m) \cup {k} |-> IF x = k THEN v ELSE m[x]]

ignoreTags ==
    << <<"Directory">>,
       <<"File", " ", "Name">>,
       <<"File", " ", "Permissions">>,
       <<"File", " ", "Modification", " ", "Date", "/", "Time">> >>

RECURSIVE ExifLines(_, _)
\* The loop of ParseExiftoolOutput over lines, from the map datas.
ExifLines(lines, datas) ==
    IF lines = <<>> THEN datas
    ELSE LET keyvalue == Split(Head(lines), ":")
         IN  IF Len(keyvalue) # 2
             THEN ExifLines(Tail(lines), datas)
             ELSE IF ~StringInSlice(TrimSpace(keyvalue[1]), ignoreTags)
                  THEN ExifLines(Tail(lines),
                                 MapPut(datas, TrimSpace(CamelCase(keyvalue[1])),
                                        TrimSpace(keyvalue[2])))
                  ELSE ExifLines(Tail(lines), datas)

ParseExiftoolOutput(exifout, err) ==
    IF err # "nil" THEN MapPut(<<>>, <<"error">>, ErrText(err))
    ELSE LET lines == Split(exifout, NL)
         IN  IF SliceContainsString(<<"File not found">>, lines)
             THEN <<>>
             ELSE ExifLines(lines, <<>>)

\* lines[1] of ParseSsdeepOutput is out of range: a run-time panic.
SsdeepFaults(ssdout, err) ==
    /\ err = "nil"
    /\ LET lines == Split(ssdout, NL)
       IN  /\ ~SliceContainsString(<<"No such file or directory">>, lines)
           /\ Len(lines) < 2

\* A variant that returns the text before the comma as it is, untrimmed.
ParseSsdeepOutputNoTrim(ssdout, err) ==
    IF err # "nil" THEN ErrText(err)
    ELSE LET lines == Split(ssdout, NL)
         IN  IF SliceContainsString(<<"No such file or directory">>, lines)
             THEN <<>>
             ELSE LET hashAndPath == Split(lines[2], ",")
                  IN  hashAndPath[1]

ParseSsdeepOutput(ssdout, err) ==
    IF err # "nil" THEN ErrText(err)
    ELSE LET lines == Split(ssdout, NL)
         IN  IF SliceContainsString(<<"No such file or directory">>, lines)
             THEN <<>>
             ELSE LET hashAndPath == Split(lines[2], ",")
                  IN  TrimSpace(hashAndPath[1])

\* lines[6:] of ParseTRiDOutput is out of range: a run-time panic.
TRiDFaults(tridout, err) ==
    /\ err = "nil"
    /\ LET lines == Split(tridout, NL)
       IN  /\ ~SliceContainsString(<<"Error: found no file(s) to analyze!">>, lines)
           /\ Len(lines) < 6

RECURSIVE KeepLines(_)
\* The loop of ParseTRiDOutput: the non-blank lines, trimmed, in order.
KeepLines(lines) ==
    IF lines = <<>> THEN <<>>
    ELSE IF Len(TrimSpace(Head(lines))) # 0
         THEN <<TrimSpace(Head(lines))>> \o KeepLines(Tail(lines))
         ELSE KeepLines(Tail(lines))

\* A variant that keeps the lines from the 6th on (lines[5:]).
ParseTRiDOutputFromSixth(tridout, err) ==
    IF err # "nil" THEN <<ErrText(err)>>
    ELSE LET lines == Split(tridout, NL)
         IN  IF SliceContainsString(<<"Error: found no file(s) to analyze!">>, lines)
             THEN <<>>
             ELSE KeepLines(SubSeq(lines, 6, Len(lines)))

ParseTRiDOutput(tridout, err) ==
    IF err # "nil" THEN <<ErrText(err)>>
    ELSE LET lines == Split(tridout, NL)
         IN  IF SliceContainsString(<<"Error: found no file(s) to analyze!">>, lines)
             THEN <<>>
             ELSE KeepLines(SubSeq(lines, 7, Len(lines)))

\* Outputs the tools give the pipeline when they exit with success.
SsdeepOutputs ==
    { <<"ssdeep-header", NL, "HASH", ",", "path", NL>>,
      <<>> }

TRiDOutputs ==
    { <<NL, "TrID", NL, "banner", NL, NL, "Collecting", NL, "path", NL,
        " ", "90.0%", NL, " ", "10.0%", NL>>,
      <<NL, "TrID", NL>> }

ExiftoolOutputs ==
    { <<"File", " ", "Name", ":", " ", "path", NL,
        "File", " ", "size", ":", " ", "10kB", NL>> }

\* What a run of each tool hands the pipeline: the error of utils.RunCommand,
\* and what the tool's parser makes of the output and that error (faults: the
\* parser panics).
SsdeepRuns ==
    { [err |-> e, faults |-> SsdeepFaults(o, e),
       hash |-> IF SsdeepFaults(o, e) THEN <<>> ELSE ParseSsdeepOutput(o, e)] :
      o \in SsdeepOutputs, e \in Errors }

TRiDRuns ==
    { [err |-> e, faults |-> TRiDFaults(o, e),
       keepLines |-> IF TRiDFaults(o, e) THEN <<>> ELSE ParseTRiDOutput(o, e)] :
      o \in TRiDOutputs, e \in Errors }

ExiftoolRuns ==
    { [err |-> e, datas |-> ParseExiftoolOutput(o, e)] :
      o \in ExiftoolOutputs, e \in Errors }

VARIABLES
    mode,       \* "cli": app.Action scans one file; "web": webService serves /scan
    mimeFlag,   \* c.Bool("mime")
    faults,     \* adverse events the web service has been given so far
    alive,      \* the process is running (FALSE after log.Fatal / a crash)
    exitErr,    \* what ended the process: the error of the archive tool
                \* ("fail", "cancel"), "open", "upload", "write" or "panic"
    fi,         \* var fi FileInfo (only its Magic part is ever written)
    pc,         \* position of each scan's sequential code
    ctxDone,    \* ctx.Done() is closed, ctx.Err() # nil
    call,       \* the detection call the scan is in (or last returned from)
    g,          \* position of the goroutine of the current detection call
    pack,       \* the pack that goroutine built
    c,          \* the channel c of the current detection call (capacity 1)
    closing,    \* goroutines that have sent and have not yet run the deferred Close
    opens,      \* magicmime.Open calls made in the process
    closes,     \* magicmime.Close calls made in the process
    ret,        \* error returned by the last detection call
    invoked,    \* the scan's invocations in the order they started, each with
                \* the error it came back with ("?" while it is in flight)
    apkJSON,    \* local apkJSON
    fileInfo,   \* local fileInfo under construction / constructed
    built,      \* the FileInfo literal has been constructed
    status,     \* HTTP status codes written to w
    sinks,      \* sinks that received the scan's report
    stdout,     \* what the probe and the mime-only path printed
    parse       \* a parser applied to a raw tool output on its own: its
                \* arguments, where it is, and what it returned

vars == <<mode, mimeFlag, faults, alive, exitErr, fi, pc, ctxDone, call, g, pack, c,
          closing, opens, closes, ret, invoked, apkJSON,
          fileInfo, built, status, sinks, stdout, parse>>

\* flagVars: what no step of a scan changes.
flagVars  == <<mode, mimeFlag, parse>>
procVars  == <<mode, mimeFlag, parse, faults>>
probeVars == <<call, g, pack, c, closing, opens, closes, ret>>
toolVars  == <<apkJSON, fileInfo, built>>
outVars   == <<status, sinks, stdout>>

\* Zero value of the local FileInfo.
NoFileInfo == [magic |-> NoMagic, magicRead |-> FALSE,
               ssdeep |-> <<>>, trid |-> <<>>, exiftool |-> <<>>, apk |-> <<>>]

\* call.late: ctx was already done when the call was entered.
NoCall == [kind |-> "none", attempt |-> 0, late |-> FALSE]

\* No parser is being applied on its own.
NoParse == [tool |-> "none", out |-> <<>>, err |-> "nil", at |-> "none",
            val |-> <<>>]

\* The process before any scan.
ScanInit ==
    /\ mode \in {"cli", "web"}
    /\ mimeFlag \in BOOLEAN
    /\ (mode = "web" => ~mimeFlag)
    /\ faults = 0
    /\ alive = TRUE
    /\ exitErr = "none"
    /\ fi = NoMagic
    /\ pc = [s \in Scans |-> IF mode = "cli" /\ s = 1 THEN "cli_start" ELSE "idle"]
    /\ ctxDone = [s \in Scans |-> FALSE]
    /\ call = [s \in Scans |-> NoCall]
    /\ g = [s \in Scans |-> "none"]
    /\ pack = [s \in Scans |-> Unset]
    /\ c = [s \in Scans |-> <<>>]
    /\ closing = 0
    /\ opens = 0
    /\ closes = 0
    /\ ret = [s \in Scans |-> "nil"]
    /\ invoked = [s \in Scans |-> <<>>]
    /\ apkJSON = [s \in Scans |-> <<>>]
    /\ fileInfo = [s \in Scans |-> NoFileInfo]
    /\ built = [s \in Scans |-> FALSE]
    /\ status = [s \in Scans |-> <<>>]
    /\ sinks = [s \in Scans |-> {}]
    /\ stdout = [s \in Scans |-> {}]

Init == ScanInit /\ parse = NoParse

\* ------------------------------------------------------------------------
\* The scope (context.WithTimeout)

\* Positions at which the scan's ctx exists and its handler has not returned.
NoCtx == {"idle", "cli_start", "web_usefile", "web_save", "done", "panic"}

\* The environment produces an outcome: a good one, or an adverse one while
\* the web service has had fewer than MaxFaults of them.
Outcome(good) ==
    /\ good \/ mode = "cli" \/ faults < MaxFaults
    /\ faults' = IF good \/ mode = "cli" THEN faults ELSE faults + 1

\* The deadline passes: ctx.Done() is closed, for good.
Expire(s) ==
    /\ alive
    /\ pc[s] \notin NoCtx
    /\ ~ctxDone[s]
    /\ Outcome(FALSE)
    /\ ctxDone' = [ctxDone EXCEPT ![s] = TRUE]
    /\ UNCHANGED <<flagVars, alive, exitErr, fi, pc, probeVars, invoked,
                   toolVars, outVars>>

\* log.Fatal(err) / utils.Assert(err) with err # nil: os.Exit(1).
Fatal(err) ==
    /\ alive' = FALSE
    /\ exitErr' = err

\* ------------------------------------------------------------------------
\* Magic Probe: GetFileMimeType / GetFileDescription (same shape; k names
\* which of the two, and which field of fi.Magic the result goes to).

\* Entry of a detection call: make(chan, 1) and the go statement.
EnterProbe(s, k, a) ==
    /\ call' = [call EXCEPT ![s] = [kind |-> k, attempt |-> a, late |-> ctxDone[s]]]
    /\ c' = [c EXCEPT ![s] = <<>>]
    /\ g' = [g EXCEPT ![s] = "open"]
    /\ pack' = [pack EXCEPT ![s] = Unset]
    /\ pc' = [pc EXCEPT ![s] = "select"]
    /\ invoked' = [invoked EXCEPT ![s] = Append(@, [tool |-> k, err |-> "?"])]
    /\ ret' = [ret EXCEPT ![s] = "nil"]
    /\ UNCHANGED <<closing, opens, closes>>

\* The detection calls are over: their locals (and the error the caller last
\* looked at) are dead.
LeaveProbe(s) ==
    /\ call' = [call EXCEPT ![s] = NoCall]
    /\ ret' = [ret EXCEPT ![s] = "nil"]
    /\ UNCHANGED <<g, pack, c, closing, opens, closes>>

\* The invocation in flight comes back with error e.
Came(s, e) == [invoked EXCEPT ![s][Len(invoked[s])].err = e]

\* Return of a detection call with error e.
ReturnProbe(s, e) ==
    /\ ret' = [ret EXCEPT ![s] = e]
    /\ pc' = [pc EXCEPT ![s] = "ret"]
    /\ invoked' = Came(s, e)

\* goroutine: utils.Assert(magicmime.Open(flags)); a failed Open is fatal.
GoOpen(s) ==
    /\ alive
    /\ g[s] = "open"
    /\ \E ok \in BOOLEAN :
         /\ Outcome(ok)
         /\ IF ok
            THEN /\ opens' = opens + 1
                 /\ g' = [g EXCEPT ![s] = "type"]
                 /\ UNCHANGED <<alive, exitErr>>
            ELSE /\ Fatal("open")
                 /\ UNCHANGED <<opens, g>>
    /\ UNCHANGED <<flagVars, fi, pc, ctxDone, call, pack, c, closing, closes,
                   ret, invoked, toolVars, outVars>>

\* goroutine: mt, err := magicmime.TypeByFile(path); pack := {mt, err}.
GoTypeByFile(s) ==
    /\ alive
    /\ g[s] = "type"
    /\ \E ok \in BOOLEAN :
         /\ Outcome(ok)
         /\ pack' = [pack EXCEPT ![s] = Detected(s, call[s].kind, call[s].attempt, ok)]
    /\ g' = [g EXCEPT ![s] = "send"]
    /\ UNCHANGED <<flagVars, alive, exitErr, fi, pc, ctxDone, call, c, closing,
                   opens, closes, ret, invoked, toolVars, outVars>>

\* goroutine: c <- pack. The channel has one slot and one sender, so the send
\* never blocks. The deferred Close is still to run.
GoSend(s) ==
    /\ alive
    /\ g[s] = "send"
    /\ Len(c[s]) < 1
    /\ c' = [c EXCEPT ![s] = Append(@, pack[s])]
    /\ pack' = [pack EXCEPT ![s] = Unset]
    /\ g' = [g EXCEPT ![s] = "none"]
    /\ closing' = closing + 1
    /\ UNCHANGED <<procVars, alive, exitErr, fi, pc, ctxDone, call, opens,
                   closes, ret, invoked, toolVars, outVars>>

\* goroutine: the deferred magicmime.Close(), run when the function returns,
\* after the send.
GoClose ==
    /\ alive
    /\ closing > 0
    /\ closing' = closing - 1
    /\ closes' = closes + 1
    /\ UNCHANGED <<procVars, alive, exitErr, fi, pc, ctxDone, call, g, pack, c,
                   opens, ret, invoked, toolVars, outVars>>

\* select, case <-ctx.Done(): taken only when ctx is done.
SelectDone(s) ==
    /\ alive
    /\ pc[s] = "select"
    /\ ctxDone[s]
    /\ pc' = [pc EXCEPT ![s] = "waitc"]
    /\ UNCHANGED <<procVars, alive, exitErr, fi, ctxDone, probeVars, invoked,
                   toolVars, outVars>>

\* A variant that returns ctx.Err() at once, without the receive.
WaitForMimeNoReceive(s) ==
    /\ alive
    /\ pc[s] = "waitc"
    /\ stdout' = [stdout EXCEPT ![s] = @ \cup {"Cancel the context"}]
    /\ ReturnProbe(s, "cancel")
    /\ UNCHANGED <<procVars, alive, exitErr, fi, ctxDone, call, g, pack, c,
                   closing, opens, closes, toolVars, status, sinks>>

\* <-c // Wait for mime; fmt.Println("Cancel the context"); return ctx.Err()
WaitForMime(s) ==
    /\ alive
    /\ pc[s] = "waitc"
    /\ Len(c[s]) > 0
    /\ c' = [c EXCEPT ![s] = Tail(@)]
    /\ stdout' = [stdout EXCEPT ![s] = @ \cup {"Cancel the context"}]
    /\ ReturnProbe(s, "cancel")
    /\ UNCHANGED <<procVars, alive, exitErr, fi, ctxDone, call, g, pack,
                   closing, opens, closes, toolVars, status, sinks>>

\* A variant that keeps a field some call has already written.
SetMagicKeepFirst(m, k, v) ==
    IF k = "mime"
    THEN (IF m.mime = Unset THEN [m EXCEPT !.mime = v] ELSE m)
    ELSE (IF m.description = Unset THEN [m EXCEPT !.description = v] ELSE m)

\* The field of fi.Magic a kind-k call writes.
SetMagic(m, k, v) ==
    IF k = "mime" THEN [m EXCEPT !.mime = v] ELSE [m EXCEPT !.description = v]

\* select, case ok := <-c: the value or the error text goes to fi.Magic.
SelectResult(s) ==
    /\ alive
    /\ pc[s] = "select"
    /\ Len(c[s]) > 0
    /\ LET ok == Head(c[s]) IN
         /\ fi' = SetMagic(fi, call[s].kind, ok)
         /\ ReturnProbe(s, IF ok.ok THEN "nil" ELSE "fail")
    /\ c' = [c EXCEPT ![s] = Tail(@)]
    /\ UNCHANGED <<procVars, alive, exitErr, ctxDone, call, g, pack, closing,
                   opens, closes, toolVars, outVars>>

\* ------------------------------------------------------------------------
\* Tool Runner: utils.RunCommand(ctx, program, path), split into the start of
\* the invocation and its return.

\* A variant that runs the subprocess without the scan's ctx: the deadline
\* neither kills it nor replaces its result.
RunErrorsNoContext(s) == {"nil", "fail"}

\* The error a RunCommand call can return: once ctx is done the subprocess is
\* not started, or is killed, or its result is replaced by a time-out error.
RunErrors(s) == IF ctxDone[s] THEN {"cancel"} ELSE {"nil", "fail"}

StartTool(s, t, next) ==
    /\ invoked' = [invoked EXCEPT ![s] = Append(@, [tool |-> t, err |-> "?"])]
    /\ pc' = [pc EXCEPT ![s] = next]

\* The scan's function returns: defer cancel() ends the scope and the local
\* fileInfo is gone.
Return(s) ==
    /\ pc' = [pc EXCEPT ![s] = "done"]
    /\ ctxDone' = [ctxDone EXCEPT ![s] = TRUE]
    /\ fileInfo' = [fileInfo EXCEPT ![s] = NoFileInfo]

\* A run-time panic in the scan's code: it ends the CLI process; in the web
\* service net/http recovers it and only the request's handler ends.
Panic(s) ==
    IF mode = "cli"
    THEN /\ Fatal("panic")
         /\ UNCHANGED <<pc, ctxDone, fileInfo>>
    ELSE /\ pc' = [pc EXCEPT ![s] = "panic"]
         /\ ctxDone' = [ctxDone EXCEPT ![s] = TRUE]
         /\ fileInfo' = [fileInfo EXCEPT ![s] = NoFileInfo]
         /\ UNCHANGED <<alive, exitErr>>

\* ------------------------------------------------------------------------
\* The pipeline after the detection calls. main (app.Action) and webAvScan
\* hold the same statements.

\* apkJSON, err := utils.RunCommand(ctx, "java", "-jar", "apkfile.jar", path)
RunApk(s) ==
    /\ alive
    /\ pc[s] = "apk"
    /\ StartTool(s, "apkfile", "apk_wait")
    /\ UNCHANGED <<procVars, alive, exitErr, fi, ctxDone, probeVars, toolVars, outVars>>

\* A variant that only logs the error of the archive tool and goes on.
ApkReturnLogOnly(s) ==
    /\ alive
    /\ pc[s] = "apk_wait"
    /\ \E err \in RunErrors(s) :
         /\ invoked' = Came(s, err)
         /\ Outcome(err # "fail")
         /\ apkJSON' = [apkJSON EXCEPT ![s] =
                            IF err = "nil" THEN <<"apk-json">> ELSE <<>>]
    /\ pc' = [pc EXCEPT ![s] = "ssdeep"]
    /\ UNCHANGED <<flagVars, alive, exitErr, fi, ctxDone, probeVars, fileInfo,
                   built, outVars>>

\* if err != nil { log.Fatal(err) }
ApkReturn(s) ==
    /\ alive
    /\ pc[s] = "apk_wait"
    /\ \E err \in RunErrors(s) :
         /\ invoked' = Came(s, err)
         /\ Outcome(err # "fail")
         /\ IF err # "nil"
            THEN /\ Fatal(err)
                 /\ UNCHANGED <<pc, apkJSON>>
            ELSE /\ apkJSON' = [apkJSON EXCEPT ![s] = <<"apk-json">>]
                 /\ pc' = [pc EXCEPT ![s] = "ssdeep"]
                 /\ UNCHANGED <<alive, exitErr>>
    /\ UNCHANGED <<flagVars, fi, ctxDone, probeVars, fileInfo, built,
                   outVars>>

\* Magic: fi.Magic. Go fixes the order of the three RunCommand calls of the
\* literal, not the moment the variable fi is read relative to them: it is
\* read before the first of them or after the last.
ReadMagic(s) ==
    /\ alive
    /\ pc[s] \in {"ssdeep", "assemble"}
    /\ ~fileInfo[s].magicRead
    /\ fileInfo' = [fileInfo EXCEPT ![s].magic = fi, ![s].magicRead = TRUE]
    /\ UNCHANGED <<procVars, alive, exitErr, fi, pc, ctxDone, probeVars,
                   invoked, apkJSON, built, outVars>>

RunSsdeep(s) ==
    /\ alive
    /\ pc[s] = "ssdeep"
    /\ StartTool(s, "ssdeep", "ssdeep_wait")
    /\ UNCHANGED <<procVars, alive, exitErr, fi, ctxDone, probeVars, toolVars, outVars>>

\* SSDeep: ParseSsdeepOutput(utils.RunCommand(ctx, "ssdeep", path))
SsdeepReturn(s) ==
    /\ alive
    /\ pc[s] = "ssdeep_wait"
    /\ \E run \in SsdeepRuns :
         /\ run.err \in RunErrors(s)
         /\ invoked' = Came(s, run.err)
         /\ Outcome(run.err # "fail" /\ ~run.faults)
         /\ IF run.faults
            THEN Panic(s)
            ELSE /\ fileInfo' = [fileInfo EXCEPT ![s].ssdeep = run.hash]
                 /\ pc' = [pc EXCEPT ![s] = "trid"]
                 /\ UNCHANGED <<alive, exitErr, ctxDone>>
    /\ UNCHANGED <<flagVars, fi, probeVars, apkJSON, built, outVars>>

RunTRiD(s) ==
    /\ alive
    /\ pc[s] = "trid"
    /\ StartTool(s, "trid", "trid_wait")
    /\ UNCHANGED <<procVars, alive, exitErr, fi, ctxDone, probeVars, toolVars, outVars>>

\* TRiD: ParseTRiDOutput(utils.RunCommand(ctx, "trid", path))
TRiDReturn(s) ==
    /\ alive
    /\ pc[s] = "trid_wait"
    /\ \E run \in TRiDRuns :
         /\ run.err \in RunErrors(s)
         /\ invoked' = Came(s, run.err)
         /\ Outcome(run.err # "fail" /\ ~run.faults)
         /\ IF run.faults
            THEN Panic(s)
            ELSE /\ fileInfo' = [fileInfo EXCEPT ![s].trid = run.keepLines]
                 /\ pc' = [pc EXCEPT ![s] = "exiftool"]
                 /\ UNCHANGED <<alive, exitErr, ctxDone>>
    /\ UNCHANGED <<flagVars, fi, probeVars, apkJSON, built, outVars>>

RunExiftool(s) ==
    /\ alive
    /\ pc[s] = "exiftool"
    /\ StartTool(s, "exiftool", "exiftool_wait")
    /\ UNCHANGED <<procVars, alive, exitErr, fi, ctxDone, probeVars, toolVars, outVars>>

\* Exiftool: ParseExiftoolOutput(utils.RunCommand(ctx, "exiftool", path))
ExiftoolReturn(s) ==
    /\ alive
    /\ pc[s] = "exiftool_wait"
    /\ \E run \in ExiftoolRuns :
         /\ run.err \in RunErrors(s)
         /\ invoked' = Came(s, run.err)
         /\ Outcome(run.err # "fail")
         /\ fileInfo' = [fileInfo EXCEPT ![s].exiftool = run.datas]
    /\ pc' = [pc EXCEPT ![s] = "assemble"]
    /\ UNCHANGED <<flagVars, alive, exitErr, fi, ctxDone, probeVars, apkJSON, built, outVars>>

\* fileInfo := FileInfo{...}: the literal is complete, APKFile: apkJSON.
BuildFileInfo(s) ==
    /\ alive
    /\ pc[s] = "assemble"
    /\ fileInfo[s].magicRead
    /\ fileInfo' = [fileInfo EXCEPT ![s].apk = apkJSON[s]]
    /\ built' = [built EXCEPT ![s] = TRUE]
    /\ pc' = [pc EXCEPT ![s] = IF mode = "cli" THEN "cli_index" ELSE "web_respond"]
    /\ UNCHANGED <<procVars, alive, exitErr, fi, ctxDone, probeVars, invoked,
                   apkJSON, outVars>>

\* ------------------------------------------------------------------------
\* CLI: app.Action

\* c.Args().Present(): the scope is made, then GetFileMimeType(ctx, path),
\* on the mime-only path and on the full path alike.
CliStart(s) ==
    /\ alive
    /\ pc[s] = "cli_start"
    /\ EnterProbe(s, "mime", 1)
    /\ UNCHANGED <<procVars, alive, exitErr, fi, ctxDone, toolVars,
                   outVars>>

\* if c.Bool("mime") { ...; fmt.Println(fi.Magic.Mime); return nil }
CliMimeOnly(s) ==
    /\ alive
    /\ mode = "cli" /\ mimeFlag
    /\ pc[s] = "ret"
    /\ stdout' = [stdout EXCEPT ![s] = @ \cup {"mime"}]
    /\ Return(s)
    /\ LeaveProbe(s)
    /\ UNCHANGED <<procVars, alive, exitErr, fi, invoked, apkJSON,
                   built, status, sinks>>

\* if err != nil && ctx.Err() == nil { GetFileMimeType(ctx, path) }
\* err = GetFileDescription(ctx, path)
CliAfterMimeType(s) ==
    /\ alive
    /\ mode = "cli" /\ ~mimeFlag
    /\ pc[s] = "ret"
    /\ call[s].kind = "mime"
    /\ IF call[s].attempt = 1 /\ ret[s] # "nil" /\ ~ctxDone[s]
       THEN EnterProbe(s, "mime", 2)
       ELSE EnterProbe(s, "description", 1)
    /\ UNCHANGED <<procVars, alive, exitErr, fi, ctxDone, toolVars,
                   outVars>>

\* A variant that goes from the description to the literal's tools, leaving
\* the archive tool out of its place.
CliAfterDescriptionToSsdeep(s) ==
    /\ alive
    /\ mode = "cli"
    /\ pc[s] = "ret"
    /\ call[s].kind = "description"
    /\ IF call[s].attempt = 1 /\ ret[s] # "nil" /\ ~ctxDone[s]
       THEN EnterProbe(s, "description", 2)
       ELSE /\ pc' = [pc EXCEPT ![s] = "ssdeep"]
            /\ LeaveProbe(s)
            /\ UNCHANGED invoked
    /\ UNCHANGED <<procVars, alive, exitErr, fi, ctxDone, toolVars,
                   outVars>>

\* if err != nil && ctx.Err() == nil { GetFileDescription(ctx, path) }
CliAfterDescription(s) ==
    /\ alive
    /\ mode = "cli"
    /\ pc[s] = "ret"
    /\ call[s].kind = "description"
    /\ IF call[s].attempt = 1 /\ ret[s] # "nil" /\ ~ctxDone[s]
       THEN EnterProbe(s, "description", 2)
       ELSE /\ pc' = [pc EXCEPT ![s] = "apk"]
            /\ LeaveProbe(s)
            /\ UNCHANGED invoked
    /\ UNCHANGED <<procVars, alive, exitErr, fi, ctxDone, toolVars,
                   outVars>>

\* elasticsearch.WritePluginResultsToDatabase(...{Data: structs.Map(fileInfo)})
CliIndex(s) ==
    /\ alive
    /\ pc[s] = "cli_index"
    /\ sinks' = [sinks EXCEPT ![s] = @ \cup {"index"}]
    /\ pc' = [pc EXCEPT ![s] = "cli_output"]
    /\ UNCHANGED <<procVars, alive, exitErr, fi, ctxDone, probeVars, invoked,
                   toolVars, status, stdout>>

\* fmt.Println of the table or of the JSON. No flag is named "post", so
\* c.Bool("post") is false and the webhook branch is never taken.
CliOutput(s) ==
    /\ alive
    /\ pc[s] = "cli_output"
    /\ sinks' = [sinks EXCEPT ![s] = @ \cup {"stdout"}]
    /\ Return(s)
    /\ UNCHANGED <<procVars, alive, exitErr, fi, probeVars, invoked,
                   apkJSON, built, status, stdout>>

\* ------------------------------------------------------------------------
\* Web service: webAvScan, one handler per request

\* file, header, err := r.FormFile("malware"); on err: 400 and the message,
\* and no return.
WebFormFile(s) ==
    /\ alive
    /\ mode = "web"
    /\ pc[s] = "idle"
    /\ \E valid \in BOOLEAN :
         IF valid
         THEN /\ pc' = [pc EXCEPT ![s] = "web_save"]
              /\ UNCHANGED status
         ELSE /\ status' = [status EXCEPT ![s] = Append(@, 400)]
              /\ pc' = [pc EXCEPT ![s] = "web_usefile"]
    /\ UNCHANGED <<procVars, alive, exitErr, fi, ctxDone, probeVars, invoked,
                   toolVars, sinks, stdout>>

\* defer file.Close(); header.Filename, with file and header nil: a nil
\* dereference.
WebUseFile(s) ==
    /\ alive
    /\ pc[s] = "web_usefile"
    /\ Panic(s)
    /\ UNCHANGED <<procVars, fi, probeVars, invoked, apkJSON, built,
                   outVars>>

\* ioutil.TempFile, ReadAll, Write, Close: log.Fatal on any error; then the
\* scope of 60 seconds is made.
WebSaveUpload(s) ==
    /\ alive
    /\ pc[s] = "web_save"
    /\ \E ok \in BOOLEAN :
         /\ Outcome(ok)
         /\ IF ok
            THEN /\ pc' = [pc EXCEPT ![s] = "web_mime"]
                 /\ UNCHANGED <<alive, exitErr>>
            ELSE /\ Fatal("upload")
                 /\ UNCHANGED pc
    /\ UNCHANGED <<flagVars, fi, ctxDone, probeVars, invoked, toolVars, outVars>>

\* GetFileMimeType(ctx, path)
WebMimeType(s) ==
    /\ alive
    /\ pc[s] = "web_mime"
    /\ EnterProbe(s, "mime", 1)
    /\ UNCHANGED <<procVars, alive, exitErr, fi, ctxDone, toolVars,
                   outVars>>

\* GetFileDescription(ctx, path): the error of GetFileMimeType is dropped.
WebDescription(s) ==
    /\ alive
    /\ mode = "web"
    /\ pc[s] = "ret"
    /\ call[s].kind = "mime"
    /\ EnterProbe(s, "description", 1)
    /\ UNCHANGED <<procVars, alive, exitErr, fi, ctxDone, toolVars,
                   outVars>>

\* The error of GetFileDescription is dropped; on to the archive tool.
WebAfterDescription(s) ==
    /\ alive
    /\ mode = "web"
    /\ pc[s] = "ret"
    /\ call[s].kind = "description"
    /\ pc' = [pc EXCEPT ![s] = "apk"]
    /\ LeaveProbe(s)
    /\ UNCHANGED <<procVars, alive, exitErr, fi, ctxDone, invoked,
                   toolVars, outVars>>

\* w.WriteHeader(http.StatusOK); json.NewEncoder(w).Encode(fileInfo), with
\* log.Fatal when the write fails; then the handler returns (defer cancel()).
WebRespond(s) ==
    /\ alive
    /\ pc[s] = "web_respond"
    /\ status' = [status EXCEPT ![s] = Append(@, 200)]
    /\ \E ok \in BOOLEAN :
         /\ Outcome(ok)
         /\ IF ok
            THEN /\ sinks' = [sinks EXCEPT ![s] = @ \cup {"http"}]
                 /\ Return(s)
                 /\ UNCHANGED <<alive, exitErr>>
            ELSE /\ Fatal("write")
                 /\ UNCHANGED <<pc, sinks, ctxDone, fileInfo>>
    /\ UNCHANGED <<flagVars, fi, probeVars, invoked, apkJSON, built,
                   stdout>>

\* ------------------------------------------------------------------------

\* The steps of the goroutine of the current detection call of scan s.
Goroutine(s) == GoOpen(s) \/ GoTypeByFile(s) \/ GoSend(s)

\* The steps of scan s common to the CLI action and the HTTP handler.
Pipeline(s) ==
    \/ SelectDone(s) \/ WaitForMime(s) \/ SelectResult(s)
    \/ RunApk(s) \/ ApkReturn(s) \/ ReadMagic(s)
    \/ RunSsdeep(s) \/ SsdeepReturn(s)
    \/ RunTRiD(s) \/ TRiDReturn(s)
    \/ RunExiftool(s) \/ ExiftoolReturn(s)
    \/ BuildFileInfo(s)

CliSteps(s) ==
    \/ CliStart(s) \/ CliMimeOnly(s) \/ CliAfterMimeType(s)
    \/ CliAfterDescription(s) \/ CliIndex(s) \/ CliOutput(s)

WebSteps(s) ==
    \/ WebFormFile(s) \/ WebUseFile(s) \/ WebSaveUpload(s)
    \/ WebMimeType(s) \/ WebDescription(s) \/ WebAfterDescription(s)
    \/ WebRespond(s)

Next ==
    \/ GoClose
    \/ \E s \in Scans :
        Expire(s) \/ Goroutine(s) \/ Pipeline(s) \/ CliSteps(s) \/ WebSteps(s)

Spec == Init /\ [][Next]_vars

\* The CLI process alone: one scan, any number of adverse events. Every
\* goroutine that can run does run: the detection library returns, a tool
\* ends by itself or is killed when the deadline passes.
CliInit == Init /\ mode = "cli"

CliNext ==
    Expire(1) \/ GoClose \/ Goroutine(1) \/ Pipeline(1) \/ CliSteps(1)

CliSpec ==
    /\ CliInit
    /\ [][CliNext]_vars
    /\ WF_vars(Goroutine(1))
    /\ WF_vars(GoClose)
    /\ WF_vars(Pipeline(1) \/ CliSteps(1))

\* ------------------------------------------------------------------------
\* The parsers on their own: each is a function of (raw output, error), so it
\* is applied here to every text of a bounded set, outside any scan.

\* Longest free text (in symbols) and most metadata lines given to a parser.
MaxText == 5
MaxLines == 2

\* All texts of at most n symbols of alphabet.
Texts(alphabet, n) == UNION {[1..k -> alphabet] : k \in 0..n}

SsdeepTexts ==
    Texts({NL, ",", " ", "HASH", "No such file or directory"}, MaxText)

\* trid prints a banner of 6 lines before its candidates; it may be cut short.
TRiDBanners ==
    { <<NL, "TrID", NL, "banner", NL, NL, "Collecting", NL, "path", NL>>,
      <<NL, "TrID", NL>>,
      <<>> }

TRiDTexts ==
    { b \o t : b \in TRiDBanners,
               t \in Texts({NL, " ", "90.0%",
                            "Error: found no file(s) to analyze!"}, MaxText) }

ExifKeys ==
    { <<"Directory">>,
      <<"File", " ", "Name">>,
      <<"File", " ", " ", "Name">>,
      <<"File", " ", "size">>,
      <<" ", "File", " ", "size", " ">>,
      <<"Date">> }

ExifValues ==
    { <<" ", "v">>, <<" ", "w", " ">>, <<" ", "10", ":", "30">> }

ExifLineSet ==
    {k \o <<":">> \o v : k \in ExifKeys, v \in ExifValues}
        \cup ExifKeys \cup {<<"File not found">>}

RECURSIVE JoinLines(_)
\* The text whose lines are ls, each ended by a newline.
JoinLines(ls) ==
    IF ls = <<>> THEN <<>> ELSE Head(ls) \o <<NL>> \o JoinLines(Tail(ls))

ExiftoolTexts ==
    {JoinLines(ls) : ls \in UNION {[1..k -> ExifLineSet] : k \in 0..MaxLines}}

ParseCall(t, o, e) ==
    [tool |-> t, out |-> o, err |-> e, at |-> "call", val |-> <<>>]

ParseInit ==
    /\ ScanInit
    /\ mode = "web"
    /\ parse \in {ParseCall("ssdeep", o, e) : o \in SsdeepTexts, e \in {"nil", "fail"}}
          \cup {ParseCall("trid", o, e) : o \in TRiDTexts, e \in {"nil", "fail"}}
          \cup {ParseCall("exiftool", o, e) : o \in ExiftoolTexts, e \in {"nil", "fail"}}

scanVars == <<faults, alive, exitErr, fi, pc, ctxDone, probeVars, invoked,
              toolVars, outVars>>

\* ParseSsdeepOutput(parse.out, parse.err): it returns or panics.
ApplyParseSsdeepOutput ==
    /\ parse.tool = "ssdeep"
    /\ parse.at = "call"
    /\ parse' = IF SsdeepFaults(parse.out, parse.err)
                THEN [parse EXCEPT !.at = "panic"]
                ELSE [parse EXCEPT !.at = "return",
                                   !.val = ParseSsdeepOutput(parse.out, parse.err)]
    /\ UNCHANGED <<mode, mimeFlag, scanVars>>

\* ParseTRiDOutput(parse.out, parse.err): it returns or panics.
ApplyParseTRiDOutput ==
    /\ parse.tool = "trid"
    /\ parse.at = "call"
    /\ parse' = IF TRiDFaults(parse.out, parse.err)
                THEN [parse EXCEPT !.at = "panic"]
                ELSE [parse EXCEPT !.at = "return",
                                   !.val = ParseTRiDOutput(parse.out, parse.err)]
    /\ UNCHANGED <<mode, mimeFlag, scanVars>>

\* ParseExiftoolOutput(parse.out, parse.err)
ApplyParseExiftoolOutput ==
    /\ parse.tool = "exiftool"
    /\ parse.at = "call"
    /\ parse' = [parse EXCEPT !.at = "return",
                              !.val = ParseExiftoolOutput(parse.out, parse.err)]
    /\ UNCHANGED <<mode, mimeFlag, scanVars>>

ParseNext ==
    ApplyParseSsdeepOutput \/ ApplyParseTRiDOutput \/ ApplyParseExiftoolOutput

ParseSpec == ParseInit /\ [][ParseNext]_vars

\* ------------------------------------------------------------------------
\* Properties

\* The indices of the kind-t invocations of scan s.
Calls(s, t) == {i \in DOMAIN invoked[s] : invoked[s][i].tool = t}

\* The first kind-t invocation of scan s came back with error e.
FirstCame(s, t, e) ==
    \E i \in Calls(s, t) : /\ \A j \in Calls(s, t) : i <= j
                           /\ invoked[s][i].err = e

\* The archive tool of scan s came back without error: the scope had not
\* expired by then, nor at any earlier moment of the scan.
ApkCameNil(s) == \E i \in Calls(s, "apkfile") : invoked[s][i].err = "nil"

\* The scan runs the whole pipeline (it is not the CLI's mime-only output).
FullScan(s) == ~mimeFlag

\* C1: in every scan, CLI or HTTP, each detection call is retried exactly
\* once when its first invocation fails while the scope has not expired, and
\* is not retried when it succeeds or the scope has expired; no detection call
\* is invoked more than twice and no tool more than once.
C1_RetryOnceInEveryScan ==
    \A s \in Scans : FullScan(s) =>
        /\ \A k \in {"mime", "description"} :
             /\ Cardinality(Calls(s, k)) <= 2
             /\ FirstCame(s, k, "fail") /\ ApkCameNil(s)
                    => Cardinality(Calls(s, k)) = 2
             /\ FirstCame(s, k, "nil") \/ FirstCame(s, k, "cancel")
                    => Cardinality(Calls(s, k)) = 1
        /\ \A t \in {"ssdeep", "trid", "exiftool", "apkfile"} :
             Cardinality(Calls(s, t)) <= 1

\* The scan has constructed its report (fileInfo) and still holds it.
HasReport(s) == built[s] /\ pc[s] \in {"cli_index", "cli_output", "web_respond"}

\* The field of a FileMagic that the kind-k detection call fills.
MagicField(m, k) == IF k = "mime" THEN m.mime ELSE m.description

\* The second kind-k invocation of scan s came back with error e.
SecondCame(s, k, e) ==
    \E i, j \in Calls(s, k) : i < j /\ invoked[s][j].err = e

\* C2: when a detection call fails on its first attempt with a
\* non-cancellation error and succeeds on its second attempt, the report of
\* the scan carries the value the second attempt detected in that magic field,
\* and exactly 2 invocations of that call were made.
C2_SecondAttemptInReport ==
    \A s \in Scans : \A k \in {"mime", "description"} :
        HasReport(s) /\ FirstCame(s, k, "fail") /\ SecondCame(s, k, "nil")
            => /\ MagicField(fileInfo[s].magic, k) = Detected(s, k, 2, TRUE)
               /\ Cardinality(Calls(s, k)) = 2

\* C2 witness: a report built after a failed first and a successful second
\* mime detection.
C2_Witness ==
    \E s \in Scans :
        HasReport(s) /\ FirstCame(s, "mime", "fail") /\ SecondCame(s, "mime", "nil")

\* C3: in every report a scan builds, each magic field holds the value this
\* scan detected or the error text of this scan's failed detection; it is
\* never unset and never something another scan wrote.
C3_MagicFieldsAreTheScansOwn ==
    \A s \in Scans : \A k \in {"mime", "description"} :
        HasReport(s) =>
            /\ MagicField(fileInfo[s].magic, k).scan = s
            /\ MagicField(fileInfo[s].magic, k).kind = k

\* No scan but s has begun.
OnlyScan(s) == \A t \in Scans \ {s} : pc[t] = "idle"

\* C4: at the moment a detection call returns (on expiry or not), the
\* background goroutine has finished, the release of the library handle
\* included: as many handles have been closed as opened.
C4_ClosedWhenProbeReturns ==
    \A s \in Scans : pc[s] = "ret" /\ OnlyScan(s) => opens = closes

\* The place of tool t in the order.
RECURSIVE Rank(_, _)
Rank(t, order) ==
    IF order = <<>> \/ Head(order) = t THEN 1 ELSE 1 + Rank(t, Tail(order))

\* The invocations of scan s start in the given order (a detection call may
\* be repeated), each one after the one before it has come back.
StartsInOrder(s, order) ==
    LET n == Len(invoked[s])
        r(i) == Rank(invoked[s][i].tool, order)
    IN  /\ n > 0 => r(1) = 1
        /\ \A i \in 1..(n - 1) :
             /\ invoked[s][i].err # "?"
             /\ \/ r(i + 1) = r(i) + 1
                \/ r(i + 1) = r(i) /\ invoked[s][i].tool \in {"mime", "description"}

\* C5 (as claimed): the invocations of a scan start in the order mime,
\* description, ssdeep, trid, exiftool, archive tool, none before the previous
\* one has returned.
C5_ArchiveToolLast ==
    \A s \in Scans :
        StartsInOrder(s, <<"mime", "description", "ssdeep", "trid", "exiftool",
                           "apkfile">>)

\* C5 (amended): the invocations of a scan start in the order mime,
\* description, archive tool, ssdeep, trid, exiftool, none before the previous
\* one has returned.
C5_ArchiveToolFirst ==
    \A s \in Scans :
        StartsInOrder(s, <<"mime", "description", "apkfile", "ssdeep", "trid",
                           "exiftool">>)

\* C5 witness: a scan has started all six kinds of invocation.
C5_Witness ==
    \E s \in Scans :
        \A t \in {"mime", "description", "apkfile", "ssdeep", "trid", "exiftool"} :
            Calls(s, t) # {}

\* The archive tool of scan s came back with an error.
ApkCameErr(s) ==
    \E i \in Calls(s, "apkfile") : invoked[s][i].err \in {"fail", "cancel"}

\* 200 has been written as status of the response of scan s.
Wrote200(s) == \E i \in DOMAIN status[s] : status[s][i] = 200

\* C6: if the archive tool's invocation returns an error the scan aborts: no
\* report is constructed and no sink receives one.
C6_ArchiveErrorAborts ==
    \A s \in Scans :
        ApkCameErr(s) => ~built[s] /\ sinks[s] = {} /\ ~Wrote200(s) /\ ~alive

\* C6 witness: the archive tool has failed in some scan and the process has
\* ended with its error.
C6_Witness ==
    \E s \in Scans : ApkCameErr(s) /\ ~alive /\ exitErr \in {"fail", "cancel"}

\* The request of scan s had a valid file field and its handler is over.
ServedValid(s) ==
    /\ pc[s] \in {"done", "panic"}
    /\ \A i \in DOMAIN status[s] : status[s][i] # 400

\* C7: every well-formed POST /scan is answered with 200 and a report,
\* whatever tools fail or are cancelled, and a tool failure never ends the
\* server process.
C7_WebAlways200 ==
    mode = "web" =>
        /\ exitErr \notin {"fail", "cancel"}
        /\ \A s \in Scans : ServedValid(s) => status[s] = <<200>> /\ "http" \in sinks[s]

\* C8: a POST /scan without a valid file field is answered with 400 and the
\* handler then ends normally: it does not use the absent file (no fault),
\* runs no tool and writes no 200.
C8_BadRequestEndsNormally ==
    \A s \in Scans :
        (status[s] # <<>> /\ Head(status[s]) = 400)
            => pc[s] # "panic" /\ invoked[s] = <<>> /\ ~Wrote200(s)

\* C9: a detection call entered after the scope has expired starts no call of
\* the detection library and returns the cancellation error.
C9_NoLibraryCallAfterExpiry ==
    \A s \in Scans :
        call[s].late => /\ g[s] = "open"
                        /\ pc[s] = "ret" => ret[s] = "cancel"

\* The deadline of scan s has passed and an invocation of s is in flight.
ExpiredInFlight(s) ==
    /\ alive
    /\ ctxDone[s]
    /\ pc[s] \in {"select", "waitc", "apk_wait", "ssdeep_wait", "trid_wait",
                  "exiftool_wait"}

\* The scan is over: its function has returned or the process has ended.
Terminated(s) == pc[s] = "done" \/ ~alive

\* The report of scan s holds the cancellation's error text in a tool's field.
CancelInReport(s) ==
    \/ fileInfo[s].ssdeep = ErrText("cancel")
    \/ fileInfo[s].trid = <<ErrText("cancel")>>
    \/ fileInfo[s].exiftool = MapPut(<<>>, <<"error">>, ErrText("cancel"))

\* The outcome of scan s tells of the cancellation: the process ended with the
\* cancellation error of the archive tool, or the report holds its text.
CancellationReported(s) ==
    \/ ~alive /\ exitErr = "cancel"
    \/ HasReport(s) /\ CancelInReport(s)

OwnOutcome(s, k) ==
    LET n == Cardinality(Calls(s, k))
        last == CHOOSE i \in Calls(s, k) : \A j \in Calls(s, k) : j <= i
    IN  Detected(s, k, n, invoked[s][last].err = "nil")

\* C11: scans are isolated: in every report, each magic field equals the
\* outcome of the scan's own (last) detection call of that kind, whatever
\* other scans the process serves at the same time or has served before.
C11_ScansIsolated ==
    \A s \in Scans : \A k \in {"mime", "description"} :
        HasReport(s) =>
            /\ Calls(s, k) # {}
            /\ MagicField(fileInfo[s].magic, k) = OwnOutcome(s, k)

\* The invocation of tool t by scan s came back with error e.
ToolCame(s, t, e) == \E i \in Calls(s, t) : invoked[s][i].err = e

\* In the report of scan s the field of every tool whose invocation failed
\* holds the error text in the tool's shape, and the field of every tool that
\* succeeded holds what its parser makes of the tool's output.
Degraded(s) ==
    /\ \A e \in {"fail", "cancel"} :
         /\ ToolCame(s, "ssdeep", e) => fileInfo[s].ssdeep = ErrText(e)
         /\ ToolCame(s, "trid", e) => fileInfo[s].trid = <<ErrText(e)>>
         /\ ToolCame(s, "exiftool", e)
                => fileInfo[s].exiftool = MapPut(<<>>, <<"error">>, ErrText(e))
    /\ ToolCame(s, "ssdeep", "nil")
           => \E run \in SsdeepRuns :
                 run.err = "nil" /\ ~run.faults /\ fileInfo[s].ssdeep = run.hash
    /\ ToolCame(s, "trid", "nil")
           => \E run \in TRiDRuns :
                 run.err = "nil" /\ ~run.faults /\ fileInfo[s].trid = run.keepLines
    /\ ToolCame(s, "exiftool", "nil")
           => \E run \in ExiftoolRuns :
                 run.err = "nil" /\ fileInfo[s].exiftool = run.datas

\* The code of scan s has hit a run-time panic.
Crashed(s) == pc[s] = "panic" \/ (mode = "cli" /\ s = 1 /\ exitErr = "panic")

\* One of ssdeep, trid, exiftool failed in scan s after the archive tool
\* succeeded.
SomeToolFailed(s) ==
    /\ ApkCameNil(s)
    /\ \E t \in {"ssdeep", "trid", "exiftool"}, e \in {"fail", "cancel"} :
         ToolCame(s, t, e)

\* C12: a scan in which any of ssdeep, trid, exiftool failed (the archive tool
\* having succeeded) goes on to its report without a fault, and the report
\* holds the error text in each failed tool's field (ssdeep: the text, trid:
\* a one-element sequence, exiftool: a one-entry map with key "error") and
\* the parsed output in the others.
C12_FailedToolsDegrade ==
    \A s \in Scans :
        SomeToolFailed(s) => /\ ~Crashed(s)
                             /\ HasReport(s) => Degraded(s)

\* C13: with a nil error no parser faults, whatever the raw output: every
\* application of ParseSsdeepOutput, ParseTRiDOutput or ParseExiftoolOutput
\* returns.
C13_ParsersNeverFault ==
    parse.err = "nil" => parse.at # "panic"

\* The positions of the symbol ch in text.
Positions(text, ch) == {i \in 1..Len(text) : text[i] = ch}

\* The number of lines of text: one more than its newlines.
LineCount(text) == Cardinality(Positions(text, NL)) + 1

\* The n-th line of text (n at most LineCount(text)), without its newline.
Line(text, n) ==
    LET nls == Positions(text, NL)
        from == IF n = 1 THEN 1
                ELSE 1 + CHOOSE i \in nls :
                             Cardinality({j \in nls : j < i}) = n - 2
        after == {i \in nls : i >= from}
        to == IF after = {} THEN Len(text)
              ELSE (CHOOSE i \in after : \A j \in after : i <= j) - 1
    IN  SubSeq(text, from, to)

\* str up to its first ch (all of str when it has none).
BeforeFirst(str, ch) ==
    LET at == Positions(str, ch)
    IN  IF at = {} THEN str
        ELSE SubSeq(str, 1, (CHOOSE i \in at : \A j \in at : i <= j) - 1)

\* str without the white space around it.
Trimmed(str) ==
    LET ink == {i \in 1..Len(str) : str[i] \notin Spaces}
    IN  IF ink = {} THEN <<>>
        ELSE SubSeq(str, CHOOSE i \in ink : \A j \in ink : i <= j,
                         CHOOSE i \in ink : \A j \in ink : j <= i)

\* ParseSsdeepOutput has returned from an output of at least 2 lines, the
\* error being nil.
SsdeepReturned ==
    /\ parse.tool = "ssdeep" /\ parse.at = "return" /\ parse.err = "nil"
    /\ LineCount(parse.out) >= 2

\* C14: for ssdeep output of at least 2 lines and a nil error, the result is
\* empty if a line holds "No such file or directory", and otherwise is the
\* second line up to its first comma (the whole line if it has none), trimmed.
C14_SsdeepSecondLineBeforeComma ==
    SsdeepReturned =>
        parse.val = IF Positions(parse.out, "No such file or directory") # {}
                    THEN <<>>
                    ELSE Trimmed(BeforeFirst(Line(parse.out, 2), ","))

\* C14 witness: the hash was cut out of a second line with a comma and
\* white space around the hash.
C14_Witness ==
    /\ SsdeepReturned
    /\ parse.val = <<"HASH">>
    /\ Positions(Line(parse.out, 2), ",") # {}
    /\ BeforeFirst(Line(parse.out, 2), ",") # <<"HASH">>

\* ParseTRiDOutput has returned from an output of at least 6 lines without the
\* diagnostic, the error being nil.
TRiDReturned ==
    /\ parse.tool = "trid" /\ parse.at = "return" /\ parse.err = "nil"
    /\ Positions(parse.out, "Error: found no file(s) to analyze!") = {}
    /\ LineCount(parse.out) >= 6

NonBlank(line) == line # <<>>

\* The lines of text after the first 6, trimmed, the blank ones left out.
Candidates(text) ==
    SelectSeq([i \in 1..(LineCount(text) - 6) |-> Trimmed(Line(text, 6 + i))],
              NonBlank)

\* C15: for trid output of at least 6 lines without the diagnostic and a nil
\* error, the result is the lines after the first 6 that are not blank, each
\* trimmed, in their order, duplicates kept.
C15_TRiDKeepsCandidatesInOrder ==
    TRiDReturned => parse.val = Candidates(parse.out)

\* C15 witness: two equal candidates around a blank line, after a whole banner.
C15_Witness ==
    /\ TRiDReturned
    /\ LineCount(parse.out) >= 9
    /\ Line(parse.out, 6) = <<"path">>
    /\ Trimmed(Line(parse.out, 8)) = <<>>
    /\ parse.val = << <<"90.0%">>, <<"90.0%">> >>

\* ParseExiftoolOutput has returned, the error being nil.
ExiftoolReturned ==
    parse.tool = "exiftool" /\ parse.at = "return" /\ parse.err = "nil"

\* The deny-listed keys as written and as normalised.
Denied ==
    {ignoreTags[i] : i \in DOMAIN ignoreTags}
        \cup {CamelCase(ignoreTags[i]) : i \in DOMAIN ignoreTags}

\* The lines of text that have exactly one colon and whose key, trimmed, is
\* not on the deny list as written: the lines the parser keeps.
KeptLines(text) ==
    {n \in 1..LineCount(text) :
        /\ Cardinality(Positions(Line(text, n), ":")) = 1
        /\ \A i \in DOMAIN ignoreTags :
             Trimmed(BeforeFirst(Line(text, n), ":")) # ignoreTags[i]}

\* The key under which line n of text is stored.
KeyOf(text, n) == Trimmed(CamelCase(BeforeFirst(Line(text, n), ":")))

\* The text of a line after its first colon, trimmed.
AfterFirstColon(line) ==
    LET at == Positions(line, ":")
        first == CHOOSE i \in at : \A j \in at : i <= j
    IN  Trimmed(SubSeq(line, first + 1, Len(line)))

\* C16: no deny-listed key (Directory, File Name, File Permissions, File
\* Modification Date/Time), as written or normalised, is a key of the result,
\* and of two kept lines with the same normalised key the later one's value is
\* the one in the result.
C16_DeniedKeysNeverKept ==
    ExiftoolReturned /\ Positions(parse.out, "File not found") = {} =>
        /\ DOMAIN parse.val \cap Denied = {}
        /\ \A n \in KeptLines(parse.out) :
             (\A m \in KeptLines(parse.out) :
                  KeyOf(parse.out, m) = KeyOf(parse.out, n) => m <= n)
                 => /\ KeyOf(parse.out, n) \in DOMAIN parse.val
                    /\ parse.val[KeyOf(parse.out, n)]
                           = AfterFirstColon(Line(parse.out, n))

\* The lines of text with at least one colon whose key, trimmed, is not on the
\* deny list as written.
ColonLines(text) ==
    {n \in 1..LineCount(text) :
        /\ Positions(Line(text, n), ":") # {}
        /\ \A i \in DOMAIN ignoreTags :
             Trimmed(BeforeFirst(Line(text, n), ":")) # ignoreTags[i]}

\* C17: each line is split on its first colon only: every non-denied line
\* with a colon, further colons in its value or not, gives an entry from its
\* normalised key to the whole trimmed text after the first colon (the last
\* such line of a key giving the value).
C17_SplitsOnFirstColonOnly ==
    ExiftoolReturned /\ Positions(parse.out, "File not found") = {} =>
        \A n \in ColonLines(parse.out) :
            /\ KeyOf(parse.out, n) \in DOMAIN parse.val
            /\ (\A m \in ColonLines(parse.out) :
                    KeyOf(parse.out, m) = KeyOf(parse.out, n) => m <= n)
                   => parse.val[KeyOf(parse.out, n)]
                          = AfterFirstColon(Line(parse.out, n))

\* The channel of the detection call of scan s holds at most the one message
\* of the call: nothing before the goroutine has sent, and nothing once the
\* call has returned, the goroutine having sent by then.
OneMessage(s) ==
    /\ Len(c[s]) <= 1
    /\ g[s] \in {"open", "type", "send"} => c[s] = <<>>
    /\ pc[s] = "ret" => c[s] = <<>> /\ g[s] = "none"

\* C18: in every detection call, whichever branch of the select wins, one
\* message is sent and it is received once; the goroutine does not stay
\* blocked on its send and the caller does not stay blocked in the select or
\* in the receive (the library call returning).
C18_NoBlockedSendOrReceive ==
    /\ [](OneMessage(1))
    /\ (g[1] # "none") ~> (g[1] = "none" \/ ~alive)
    /\ (pc[1] \in {"select", "waitc"}) ~> (pc[1] \notin {"select", "waitc"} \/ ~alive)

\* C18 witness: a call entered after the deadline has returned the
\* cancellation, after the receive.
C18_Witness ==
    pc[1] = "ret" /\ ret[1] = "cancel" /\ call[1].late /\ OneMessage(1)

\* C19: the open / use / close sections of the successive detection calls of
\* a scan never overlap: while the scan is alone in the process, at most one
\* handle opened by its calls is not yet closed.
C19_SectionsNeverOverlap ==
    \A s \in Scans : OnlyScan(s) => opens <= closes + 1

====
